---- MODULE Spec2Model ----
(***************************************************************************)
(* The schema aggregation engine of spec-mesh: Schema.get_schema /         *)
(* Schema.get_schemas (concurrent fetch of the sources' OpenAPI documents),*)
(* SchemasMerger (origin stamping, tag grouping, first-wins merge of       *)
(* paths and components, metadata stamping) and the serving layer that     *)
(* runs them (lifespan at startup, the /openapi.json handler per request). *)
(*                                                                         *)
(* Python dicts are insertion-ordered: a dict is a sequence of [k, v]      *)
(* entries with distinct keys.  A key that may be missing from a dict is   *)
(* an option: <<>> when the key is missing, <<v>> when it holds v.         *)
(* Strings are TLA+ strings and f-strings are concatenations.              *)
(***************************************************************************)
EXTENDS Naturals, Sequences, FiniteSets, TLC

VARIABLES
    config_sources, \* config["sources"], the process-wide source list
    registry,       \* the source list as loaded from configuration (history)
    startup_valid,  \* what lifespan's validation returned (history)
    run_sources,    \* `sources` read by the handler of the current run
    valid_sources,  \* what the handler's validation returned in this run
    was_unavailable,\* names a request-time validation has dropped (history)
    pc,             \* position of the serving layer / of the operation
    tasks,          \* get_schemas: one entry per created fetch coroutine
    schemas,        \* list of (name, source, schema): SchemasMerger.schemas
    grouping,       \* SchemasMerger.grouping
    settings,       \* config["settings"]: title, description, version
    given,          \* the list SchemasMerger was constructed on (history)
    merged,         \* what SchemasMerger.merge returned (or that it raised)
    stamp_url,      \* url given to _prepare_server_for_schema
    stamp_doc,      \* the document _prepare_server_for_schema works on
    stamp_orig,     \* that document before the first application (history)
    stamp_once,     \* that document after the first application (history)
    stamp_count     \* number of applications so far

vars == <<config_sources, registry, startup_valid, run_sources, valid_sources,
          was_unavailable, pc, tasks,
          schemas, given, grouping, settings, merged,
          stamp_url, stamp_doc, stamp_orig, stamp_once, stamp_count>>

---------------------------------------------------------------------------
(* Bounds of the model *)

MaxDocs == 2
MaxSources == 3
MaxServers == 2
MaxApply == 3

---------------------------------------------------------------------------
(* Options and insertion-ordered dicts *)

None == <<>>
Some(v) == <<v>>
IsSome(o) == Len(o) = 1
Val(o) == o[1]

Range(s) == {s[i] : i \in DOMAIN s}
Keys(d) == {d[i].k : i \in DOMAIN d}
Has(d, k) == \E i \in DOMAIN d : d[i].k = k
Get(d, k) == d[CHOOSE i \in DOMAIN d : d[i].k = k].v
\* d[k] = v: an existing key keeps its position, a new key goes last
Put(d, k, v) ==
    IF Has(d, k)
    THEN [i \in DOMAIN d |-> IF d[i].k = k THEN [k |-> k, v |-> v] ELSE d[i]]
    ELSE Append(d, [k |-> k, v |-> v])

\* all sequences without repetition over the elements of S
RECURSIVE Orderings(_)
Orderings(S) ==
    IF S = {} THEN {<<>>}
    ELSE UNION {{<<x>> \o t : t \in Orderings(S \ {x})} : x \in S}
OrderedSubsets(S) == UNION {Orderings(T) : T \in SUBSET S}
SeqsUpTo(S, n) == UNION {[1..m -> S] : m \in 0..n}

---------------------------------------------------------------------------
(* Documents.  A document is the tree the engine looks at:                 *)
(*   paths      : option of dict  path -> sequence of operations           *)
(*   components : option of [schemas : option of dict name -> definition,  *)
(*                           others  : dict category -> dict name -> def]  *)
(*   tags       : option of sequence of tag names                          *)
(*   info       : option of [title, description, version : option]         *)
(* An operation is [tags : option of sequence of tag names,                *)
(*                  servers : option of sequence of server entries];       *)
(* a server entry is the option of its "url".                              *)

EmptyDoc == [paths |-> None, components |-> None, tags |-> None, info |-> None]

---------------------------------------------------------------------------
(* SchemasMerger: the per-document transforms *)

\* dpath.get(obj, glob) with no default raises KeyError when nothing matches
NoPaths(schema) == ~IsSome(schema.paths)
NoComponentSchemas(schema) ==
    \/ ~IsSome(schema.components)
    \/ ~IsSome(Val(schema.components).schemas)

\* the body of the loop over operations: lines 151-160, with the
\* server_exists test left out
StampOperationAlwaysAppend(operation, url) ==
    LET servers == IF IsSome(operation.servers) THEN Val(operation.servers)
                   ELSE <<>>
    IN  [operation EXCEPT !.servers = Some(Append(servers, Some(url)))]

\* the body of the loop over operations: lines 151-160
StampOperation(operation, url) ==
    LET servers == IF IsSome(operation.servers) THEN Val(operation.servers)
                   ELSE <<>>
        server_exists == \E i \in DOMAIN servers : servers[i] = Some(url)
    IN  [operation EXCEPT !.servers =
            Some(IF server_exists THEN servers
                 ELSE Append(servers, Some(url)))]

\* every operation of every path is stamped; a missing "paths" is the
\* caller's KeyError (NoPaths), so paths is present here
_prepare_server_for_schema(schema, url) ==
    LET paths == Val(schema.paths)
    IN  [schema EXCEPT !.paths = Some(
            [p \in DOMAIN paths |->
                [k |-> paths[p].k,
                 v |-> [o \in DOMAIN paths[p].v |->
                            StampOperation(paths[p].v[o], url)]]])]

\* for tag in operation.get("tags", []): operation["tags"] = [f"{name} | {tag}"]
\* the loop runs over the list object read before the first assignment
RECURSIVE GroupTagsLoop(_, _, _, _)
GroupTagsLoop(operation, tags, i, name) ==
    IF i > Len(tags) THEN operation
    ELSE GroupTagsLoop(
            [operation EXCEPT !.tags = Some(<<name \o " | " \o tags[i]>>)],
            tags, i + 1, name)

GroupOperation(operation, name) ==
    GroupTagsLoop(operation,
                  IF IsSome(operation.tags) THEN Val(operation.tags) ELSE <<>>,
                  1, name)

\* tag["name"] = f"{name} | {tag['name']}" for the document's own tags;
\* dpath.set changes existing elements only, so a missing "tags" stays missing
_prepare_grouping(schema, name) ==
    LET global_tags == IF IsSome(schema.tags) THEN Val(schema.tags) ELSE <<>>
        renamed == [t \in DOMAIN global_tags |-> name \o " | " \o global_tags[t]]
        paths == IF IsSome(schema.paths) THEN Val(schema.paths) ELSE <<>>
        grouped == [p \in DOMAIN paths |->
                      [k |-> paths[p].k,
                       v |-> [o \in DOMAIN paths[p].v |->
                                 GroupOperation(paths[p].v[o], name)]]]
    IN  [schema EXCEPT
            !.tags = IF IsSome(schema.tags) THEN Some(renamed) ELSE None,
            !.paths = IF IsSome(schema.paths) THEN Some(grouped) ELSE None]

\* the first loop of merge(): each tuple's schema after its preparation
PrepareSchema(entry, grouping_on) ==
    LET stamped == _prepare_server_for_schema(entry.schema, entry.source.url)
    IN  [entry EXCEPT !.schema =
            IF grouping_on THEN _prepare_grouping(stamped, entry.name)
            ELSE stamped]

---------------------------------------------------------------------------
(* SchemasMerger: the merge of the name spaces *)

\* if key in merged: merged[f"{key}_{service_name}"] = value
\* else:             merged[key] = value
InsertFirstWins(acc, key, value, service_name) ==
    IF Has(acc, key) THEN Put(acc, key \o "_" \o service_name, value)
    ELSE Put(acc, key, value)

\* for key, value in d.items(): ... , in the dict's order
RECURSIVE MergeItems(_, _, _, _)
MergeItems(acc, d, i, service_name) ==
    IF i > Len(d) THEN acc
    ELSE MergeItems(InsertFirstWins(acc, d[i].k, d[i].v, service_name),
                    d, i + 1, service_name)

RECURSIVE MergePathsFrom(_, _, _)
MergePathsFrom(acc, entries, n) ==
    IF n > Len(entries) THEN acc
    ELSE MergePathsFrom(
            MergeItems(acc, Val(entries[n].schema.paths), 1, entries[n].name),
            entries, n + 1)

_merge_paths(entries) == MergePathsFrom(<<>>, entries, 1)

RECURSIVE MergeSchemasFrom(_, _, _)
MergeSchemasFrom(acc, entries, n) ==
    IF n > Len(entries) THEN acc
    ELSE MergeSchemasFrom(
            MergeItems(acc, Val(Val(entries[n].schema.components).schemas), 1,
                       entries[n].name),
            entries, n + 1)

_merge_schemas(entries) == MergeSchemasFrom(<<>>, entries, 1)

\* one document's component categories other than "schemas", folded into
\* merged_components: a category is created empty on first sight
RECURSIVE MergeCategories(_, _, _, _)
MergeCategories(acc, others, c, service_name) ==
    IF c > Len(others) THEN acc
    ELSE LET component_type == others[c].k
             have == IF Has(acc, component_type) THEN acc
                     ELSE Put(acc, component_type, <<>>)
         IN  MergeCategories(
                Put(have, component_type,
                    MergeItems(Get(have, component_type), others[c].v, 1,
                               service_name)),
                others, c + 1, service_name)

RECURSIVE MergeComponentsFrom(_, _, _)
MergeComponentsFrom(acc, entries, n) ==
    IF n > Len(entries) THEN acc
    ELSE MergeComponentsFrom(
            MergeCategories(acc, Val(entries[n].schema.components).others, 1,
                            entries[n].name),
            entries, n + 1)

_merge_components(entries) == MergeComponentsFrom(<<>>, entries, 1)

---------------------------------------------------------------------------
(* SchemasMerger.merge *)

DefaultTitle == "Merged API"
DefaultDescription == ""
DefaultVersion == "1.0.0"

\* dpath.get(config, "settings/<field>", default=<literal>)
ConfigOr(configured, default) ==
    IF IsSome(configured) THEN Val(configured) ELSE default

\* dpath.set(self.merged, "info/<field>", value): dpath.set changes the
\* elements that exist and creates none
StampInfo(info, config_settings) ==
    IF ~IsSome(info) THEN None
    ELSE LET i == Val(info)
             set(old, value) == IF IsSome(old) THEN Some(value) ELSE None
         IN  Some([title |-> set(i.title,
                        ConfigOr(config_settings.title, DefaultTitle)),
                   description |-> set(i.description,
                        ConfigOr(config_settings.description, DefaultDescription)),
                   version |-> set(i.version,
                        ConfigOr(config_settings.version, DefaultVersion))])

\* all_tags.extend(schema["tags"]) for every schema with a "tags" key
RECURSIVE AllTags(_, _)
AllTags(entries, n) ==
    IF n > Len(entries) THEN <<>>
    ELSE (IF IsSome(entries[n].schema.tags) THEN Val(entries[n].schema.tags)
          ELSE <<>>) \o AllTags(entries, n + 1)

\* self.schemas as the first loop leaves it when it stops before tuple `stop`
\* (the documents are changed in place, one after the other)
PreparedBefore(entries, grouping_on, stop) ==
    [n \in DOMAIN entries |->
        IF n < stop THEN PrepareSchema(entries[n], grouping_on) ELSE entries[n]]

\* the first tuple whose preparation raises, Len + 1 when none does
FirstUnprepared(entries) ==
    IF \E n \in DOMAIN entries : NoPaths(entries[n].schema)
    THEN CHOOSE n \in DOMAIN entries :
            /\ NoPaths(entries[n].schema)
            /\ \A m \in 1..(n - 1) : ~NoPaths(entries[m].schema)
    ELSE Len(entries) + 1

\* "Build final schema": the copy of the first schema with the merged maps
\* set into it; dpath.set replaces what exists and adds nothing
BuildMerged(prepared, grouping_on, config_settings) ==
    LET first == prepared[1].schema
        merged_paths == _merge_paths(prepared)
        merged_schemas == _merge_schemas(prepared)
        merged_components == _merge_components(prepared)
        own == Val(first.components).others
        others == [c \in DOMAIN own |->
                     IF Has(merged_components, own[c].k)
                     THEN [k |-> own[c].k, v |-> Get(merged_components, own[c].k)]
                     ELSE own[c]]
        tags == IF grouping_on /\ IsSome(first.tags)
                THEN Some(AllTags(prepared, 1)) ELSE first.tags
    IN  [paths |-> Some(merged_paths),
         components |-> Some([schemas |-> Some(merged_schemas),
                              others |-> others]),
         tags |-> tags,
         info |-> StampInfo(first.info, config_settings)]

\* what merge() returns, or the exception it raises
merge(entries, grouping_on, config_settings) ==
    IF entries = <<>> THEN [raised |-> "", doc |-> EmptyDoc]
    ELSE IF FirstUnprepared(entries) <= Len(entries)
    THEN [raised |-> "KeyError", doc |-> EmptyDoc]
    ELSE IF \E n \in DOMAIN entries : NoComponentSchemas(entries[n].schema)
    THEN [raised |-> "KeyError", doc |-> EmptyDoc]
    ELSE [raised |-> "",
          doc |-> BuildMerged(PreparedBefore(entries, grouping_on,
                                             Len(entries) + 1),
                              grouping_on, config_settings)]

---------------------------------------------------------------------------
(* The sources and documents the merger is run on *)

Names == <<"A", "B", "C", "D">>
Source(n) == [name |-> Names[n], url |-> "http://" \o Names[n],
              schema |-> "http://" \o Names[n] \o "/openapi.json",
              enabled |-> TRUE]

PlainOperation == [tags |-> None, servers |-> None]
FullInfo == Some([title |-> Some("Own title"), description |-> Some("Own text"),
                  version |-> Some("0.1")])
\* a well-formed document of source n with one path of its own
BaseDoc(n) ==
    [paths |-> Some(<<[k |-> "/" \o Names[n], v |-> <<PlainOperation>>]>>),
     components |-> Some([schemas |-> Some(<<>>), others |-> <<>>]),
     tags |-> None,
     info |-> FullInfo]

PathKeys == {"/q", "/q_B", "/r"}
SchemaNames == {"Error", "Error_B"}
ComponentNames == {"X"}

\* a dict over `keys`, each value naming the document and key it comes from
DefsOf(n, keys) == [i \in DOMAIN keys |->
                      [k |-> keys[i], v |-> Names[n] \o ":" \o keys[i]]]

PathDocs(n) ==
    {[BaseDoc(n) EXCEPT !.paths =
         Some([i \in DOMAIN ks |-> [k |-> ks[i], v |-> <<PlainOperation>>]])]
     : ks \in OrderedSubsets(PathKeys)}

ShapeDocs(n) ==
    {BaseDoc(n),
     [BaseDoc(n) EXCEPT !.paths = None],
     [BaseDoc(n) EXCEPT !.components = None],
     [BaseDoc(n) EXCEPT !.components = Some([schemas |-> None, others |-> <<>>])]}

SchemaDocs(n) ==
    {[BaseDoc(n) EXCEPT !.components =
         Some([schemas |-> Some(DefsOf(n, ks)), others |-> <<>>])]
     : ks \in OrderedSubsets(SchemaNames)}

CategoryChoices(n, category) ==
    {<<>>} \cup {<<[k |-> category, v |-> DefsOf(n, ks)]>>
                 : ks \in OrderedSubsets(ComponentNames)}
ComponentDocs(n) ==
    {[BaseDoc(n) EXCEPT !.components =
         Some([schemas |-> Some(<<>>), others |-> r \o p])]
     : r \in CategoryChoices(n, "responses"),
       p \in CategoryChoices(n, "parameters")}

OptionOf(S) == {None} \cup {Some(x) : x \in S}
InfoDocs(n) ==
    {[BaseDoc(n) EXCEPT !.info = i]
     : i \in OptionOf([title : OptionOf({"Own title"}),
                       description : OptionOf({"Own text"}),
                       version : OptionOf({"0.1"})])}

TagLists == {<<>>, <<"Users">>, <<"Users", "Pets">>, <<"Pets", "Users">>}
TagDocs(n) ==
    {[BaseDoc(n) EXCEPT
         !.tags = t,
         !.paths = Some(<<[k |-> "/" \o Names[n],
                           v |-> <<[tags |-> o, servers |-> None]>>]>>)]
     : t \in OptionOf(TagLists), o \in OptionOf(TagLists)}

AllSettings == [title : OptionOf({"Mesh"}), description : OptionOf({"All APIs"}),
                version : OptionOf({"2.0"})]
NoSettings == [title |-> None, description |-> None, version |-> None]

\* the documents of source n in one family of inputs
DocsOf(family, n) ==
    CASE family = "paths" -> PathDocs(n)
      [] family = "shape" -> ShapeDocs(n)
      [] family = "schemas" -> SchemaDocs(n)
      [] family = "components" -> ComponentDocs(n)
      [] family = "info" -> InfoDocs(n)
      [] family = "tags" -> TagDocs(n)

\* the lists of len tuples (name, source, schema), in the sources' order
RECURSIVE Tuples(_, _)
Tuples(family, len) ==
    IF len = 0 THEN {<<>>}
    ELSE {Append(t, [name |-> Names[len], source |-> Source(len), schema |-> d])
          : t \in Tuples(family, len - 1), d \in DocsOf(family, len)}

Families == {"paths", "shape", "schemas", "components", "info", "tags"}
\* SchemasMerger(schemas, grouping=...) under config["settings"]; the handler
\* constructs it with the default grouping=True
GroupingsOf(family) == IF family = "tags" THEN BOOLEAN ELSE {TRUE}
SettingsOf(family) == IF family = "info" THEN AllSettings ELSE {NoSettings}

---------------------------------------------------------------------------
(* MergeSpec: SchemasMerger is constructed on a list and merge() is called *)

NoResult == [raised |-> "", doc |-> EmptyDoc]

MergeInit ==
    /\ \E family \in Families : \E len \in 0..MaxDocs :
       \E g \in Tuples(family, len) :
          /\ given = g
          /\ schemas = g
          /\ grouping \in GroupingsOf(family)
          /\ settings \in SettingsOf(family)
    /\ merged = NoResult
    /\ pc = "constructed"
    /\ config_sources = <<>> /\ registry = <<>> /\ startup_valid = <<>>
    /\ run_sources = <<>> /\ valid_sources = <<>> /\ was_unavailable = {}
    /\ tasks = <<>>
    /\ stamp_url = "" /\ stamp_doc = EmptyDoc /\ stamp_orig = EmptyDoc
    /\ stamp_once = EmptyDoc /\ stamp_count = 0

\* merger.merge(): the documents are prepared in place, then merged
MergerMerge ==
    /\ pc = "constructed"
    /\ merged' = merge(schemas, grouping, settings)
    /\ schemas' = PreparedBefore(schemas, grouping, FirstUnprepared(schemas))
    /\ pc' = "merged"
    /\ UNCHANGED <<given, grouping, settings, config_sources, registry,
                   startup_valid, run_sources, valid_sources,
                   was_unavailable, tasks, stamp_url, stamp_doc,
                   stamp_orig, stamp_once, stamp_count>>

MergeNext == MergerMerge

MergeSpec == MergeInit /\ [][MergeNext]_vars

---------------------------------------------------------------------------
(* Properties of SchemasMerger.merge, stated on MergeSpec *)

Merged == pc = "merged"
MergedOk == pc = "merged" /\ merged.raised = "" /\ given # <<>>
PathsOf(entry) ==
    IF IsSome(entry.schema.paths) THEN Val(entry.schema.paths) ELSE <<>>
SchemasOf(entry) ==
    IF IsSome(entry.schema.components)
       /\ IsSome(Val(entry.schema.components).schemas)
    THEN Val(Val(entry.schema.components).schemas) ELSE <<>>
OthersOf(entry) ==
    IF IsSome(entry.schema.components)
    THEN Val(entry.schema.components).others ELSE <<>>
WellFormed(entry) ==
    ~NoPaths(entry.schema) /\ ~NoComponentSchemas(entry.schema)
MergedPaths == Val(merged.doc.paths)
MergedSchemas == Val(Val(merged.doc.components).schemas)
MergedOthers == Val(merged.doc.components).others
Least(S) == CHOOSE n \in S : \A m \in S : n <= m

\* C1: for every path p that more than one document defines, the merged paths
\* hold under p the operations of the earliest document that defines p, and
\* under "p_S" the operations of every later document S that defines p.
\* (The operations are the documents' own, as the preparation left them.)
C1_PathMergeFirstWins ==
    MergedOk =>
        \A n \in DOMAIN given : \A p \in Keys(PathsOf(given[n])) :
            LET definers == {m \in DOMAIN given : Has(PathsOf(given[m]), p)}
                first == Least(definers)
            IN  Cardinality(definers) > 1 =>
                  /\ Has(MergedPaths, p)
                  /\ Get(MergedPaths, p) = Get(PathsOf(schemas[first]), p)
                  /\ \A m \in definers \ {first} :
                        /\ Has(MergedPaths, p \o "_" \o given[m].name)
                        /\ Get(MergedPaths, p \o "_" \o given[m].name)
                              = Get(PathsOf(schemas[m]), p)

\* C4: a document without the structure the merge expects does not abort
\* the batch: merge() does not raise, and every path and component schema of
\* every well-formed document of the list is in the merged document.
C4_MalformedDocumentDoesNotAbort ==
    Merged /\ given # <<>> =>
        /\ merged.raised = ""
        /\ \A n \in DOMAIN given : WellFormed(given[n]) =>
              /\ \A i \in DOMAIN PathsOf(schemas[n]) :
                    \E j \in DOMAIN MergedPaths :
                        MergedPaths[j].v = PathsOf(schemas[n])[i].v
              /\ \A i \in DOMAIN SchemasOf(given[n]) :
                    \E j \in DOMAIN MergedSchemas :
                        MergedSchemas[j].v = SchemasOf(given[n])[i].v

\* the first-wins merge of one category over the documents in input order
RECURSIVE CategoryMerge(_, _, _)
CategoryMerge(acc, category, n) ==
    IF n > Len(given) THEN acc
    ELSE CategoryMerge(
            IF Has(OthersOf(given[n]), category)
            THEN MergeItems(acc, Get(OthersOf(given[n]), category), 1,
                            given[n].name)
            ELSE acc,
            category, n + 1)

\* C5: every component category other than "schemas" that any document of
\* the list has is in the merged document's components, and holds the
\* first-wins merge of that category's entries over all documents; a name
\* collides only within its own category.
C5_EveryCategoryReachesOutput ==
    MergedOk =>
        \A n \in DOMAIN given : \A c \in Keys(OthersOf(given[n])) :
            /\ Has(MergedOthers, c)
            /\ Get(MergedOthers, c) = CategoryMerge(<<>>, c, 1)

\* C6: for a non-empty list, the returned document's info.title,
\* info.description and info.version are the configured values, or the
\* defaults where configuration omits them, whatever the first document's
\* info held or omitted.
C6_MetadataStampingAlwaysWins ==
    MergedOk =>
        /\ IsSome(merged.doc.info)
        /\ Val(merged.doc.info) =
              [title |-> Some(ConfigOr(settings.title, "Merged API")),
               description |-> Some(ConfigOr(settings.description, "")),
               version |-> Some(ConfigOr(settings.version, "1.0.0"))]

\* C8: for two documents that both define a component schema N, the merged
\* components.schemas holds N with the first document's definition and
\* "N_<second source name>" with the second document's definition.
C8_SchemaMergeFirstWins ==
    MergedOk /\ Len(given) = 2 =>
        \A N \in Keys(SchemasOf(given[1])) \cap Keys(SchemasOf(given[2])) :
            /\ Has(MergedSchemas, N)
            /\ Get(MergedSchemas, N) = Get(SchemasOf(given[1]), N)
            /\ Has(MergedSchemas, N \o "_" \o given[2].name)
            /\ Get(MergedSchemas, N \o "_" \o given[2].name)
                  = Get(SchemasOf(given[2]), N)

TagsOf(entry) == IF IsSome(entry.schema.tags) THEN Val(entry.schema.tags) ELSE <<>>
RECURSIVE GroupedTagsFrom(_)
GroupedTagsFrom(n) ==
    IF n > Len(given) THEN <<>>
    ELSE [t \in DOMAIN TagsOf(given[n]) |->
             given[n].name \o " | " \o TagsOf(given[n])[t]]
         \o GroupedTagsFrom(n + 1)

\* C9: with grouping enabled, every top-level tag T of source S's document is
\* renamed to "S | T" and is in the merged document's tags, which are all
\* documents' tag lists concatenated in input order; every operation of S
\* that had a non-empty tag list ends with the one tag "S | <its last tag>".
C9_TagGrouping ==
    MergedOk /\ grouping =>
        /\ \A n \in DOMAIN given :
              /\ TagsOf(schemas[n]) =
                    [t \in DOMAIN TagsOf(given[n]) |->
                        given[n].name \o " | " \o TagsOf(given[n])[t]]
              /\ \A p \in DOMAIN PathsOf(given[n]) :
                 \A o \in DOMAIN PathsOf(given[n])[p].v :
                    LET before == PathsOf(given[n])[p].v[o].tags
                        after == PathsOf(schemas[n])[p].v[o].tags
                    IN  IsSome(before) /\ Val(before) # <<>> =>
                          after = Some(<<given[n].name \o " | "
                                         \o Val(before)[Len(Val(before))]>>)
        /\ (\E n \in DOMAIN given : TagsOf(given[n]) # <<>>) =>
              /\ IsSome(merged.doc.tags)
              /\ Val(merged.doc.tags) = GroupedTagsFrom(1)

RECURSIVE PathEntriesFrom(_)
PathEntriesFrom(n) ==
    IF n > Len(given) THEN 0
    ELSE Len(PathsOf(given[n])) + PathEntriesFrom(n + 1)

\* C11: path merging never loses an entry: every path entry of every
\* document is in the merged paths, with that document's operations, under
\* its bare key or under its key suffixed with "_<source name>", also when
\* documents have keys that already end in "_<some source name>"; so the
\* merged paths have as many keys as the documents have path entries.
C11_PathMergeLosesNoEntry ==
    MergedOk =>
        /\ Len(MergedPaths) = PathEntriesFrom(1)
        /\ \A n \in DOMAIN given : \A p \in Keys(PathsOf(given[n])) :
              \E key \in {p, p \o "_" \o given[n].name} :
                  /\ Has(MergedPaths, key)
                  /\ Get(MergedPaths, key) = Get(PathsOf(schemas[n]), p)

---------------------------------------------------------------------------
(* StampSpec: _prepare_server_for_schema applied again and again to one    *)
(* document with one url                                                   *)

StampUrls == {"http://A", "http://B"}
\* a server entry with no "url", or with one of the urls
ServerEntries == OptionOf(StampUrls)
ServerLists == OptionOf(SeqsUpTo(ServerEntries, MaxServers))
StampDocs ==
    {[BaseDoc(1) EXCEPT !.paths =
         Some(<<[k |-> "/q",
                 v |-> [o \in DOMAIN ss |-> [tags |-> None, servers |-> ss[o]]]]>>)]
     : ss \in [1..1 -> ServerLists] \cup [1..2 -> ServerLists]}

StampInit ==
    /\ stamp_url \in StampUrls
    /\ stamp_doc \in StampDocs
    /\ stamp_orig = stamp_doc
    /\ stamp_once = stamp_doc
    /\ stamp_count = 0
    /\ pc = "stamping"
    /\ config_sources = <<>> /\ registry = <<>> /\ startup_valid = <<>>
    /\ run_sources = <<>> /\ valid_sources = <<>> /\ was_unavailable = {}
    /\ tasks = <<>>
    /\ schemas = <<>> /\ given = <<>> /\ grouping = TRUE
    /\ settings = NoSettings /\ merged = NoResult

\* schema = self._prepare_server_for_schema(schema, url=url)
StampApply ==
    /\ pc = "stamping"
    /\ stamp_count < MaxApply
    /\ stamp_doc' = _prepare_server_for_schema(stamp_doc, stamp_url)
    /\ stamp_once' = IF stamp_count = 0 THEN stamp_doc' ELSE stamp_once
    /\ stamp_count' = stamp_count + 1
    /\ UNCHANGED <<stamp_url, stamp_orig, pc, config_sources, registry,
                   startup_valid, run_sources, valid_sources,
                   was_unavailable, tasks, schemas, given,
                   grouping, settings, merged>>

StampNext == StampApply

StampSpec == StampInit /\ [][StampNext]_vars

\* the operations of the one path of a StampSpec document
StampOps(doc) == Val(doc.paths)[1].v
ServersOf(operation) ==
    IF IsSome(operation.servers) THEN Val(operation.servers) ELSE <<>>
CountUrl(servers, url) ==
    Cardinality({i \in DOMAIN servers : servers[i] = Some(url)})
IsPrefix(s, t) == Len(s) <= Len(t) /\ \A i \in DOMAIN s : s[i] = t[i]

\* C10 as claimed: after one or more applications every operation has the
\* servers list that one application gave it, that list holds exactly one
\* entry whose url is u, and the entries present before are kept in order.
C10_StampingExactlyOne ==
    stamp_count >= 1 =>
        \A o \in DOMAIN StampOps(stamp_doc) :
            LET now == StampOps(stamp_doc)[o]
            IN  /\ now.servers = StampOps(stamp_once)[o].servers
                /\ CountUrl(ServersOf(now), stamp_url) = 1
                /\ IsPrefix(ServersOf(StampOps(stamp_orig)[o]), ServersOf(now))

\* C10 as amended: after one or more applications every operation has the
\* servers list that one application gave it; the entries present before
\* are kept in order, followed by one new entry {url: u} exactly when none
\* of them had url u; so the list holds max(1, k) entries with url u, k
\* being the number it held before.
C10_StampingIdempotent ==
    stamp_count >= 1 =>
        \A o \in DOMAIN StampOps(stamp_doc) :
            LET now == StampOps(stamp_doc)[o]
                before == ServersOf(StampOps(stamp_orig)[o])
                k == CountUrl(before, stamp_url)
            IN  /\ now.servers = StampOps(stamp_once)[o].servers
                /\ IsSome(now.servers)
                /\ ServersOf(now) = IF k = 0 THEN Append(before, Some(stamp_url))
                                    ELSE before
                /\ CountUrl(ServersOf(now), stamp_url) = IF k = 0 THEN 1 ELSE k

\* the url was stamped twice on a document with an operation that had other
\* servers but not this one, and with an operation that named it twice
C10_Witness ==
    /\ stamp_count = 2
    /\ \E o \in DOMAIN StampOps(stamp_orig) :
          /\ ServersOf(StampOps(stamp_orig)[o]) # <<>>
          /\ CountUrl(ServersOf(StampOps(stamp_orig)[o]), stamp_url) = 0
    /\ \E o \in DOMAIN StampOps(stamp_orig) :
          CountUrl(ServersOf(StampOps(stamp_orig)[o]), stamp_url) = 2

---------------------------------------------------------------------------
(* Schema.get_schema: one HTTP GET of a spec URL *)

\* What the GET of a source's spec URL can bring: no response within the
\* client's timeout, or a response.  Of the content-type header only the
\* three substrings the code looks for matter.  The body is the source's
\* specification as JSON or as YAML, a JSON object that is no specification
\* (what servers send with an error status), JSON null, or text that is
\* neither JSON nor YAML.
Statuses == {200, 404}
ContentTypes == [openapi : BOOLEAN, json : BOOLEAN, yaml : BOOLEAN]
Bodies == {"spec_json", "spec_yaml", "error_json", "null", "garbage"}
TimedOut == [timeout |-> TRUE, status |-> 0,
             ctype |-> [openapi |-> FALSE, json |-> FALSE, yaml |-> FALSE],
             body |-> "garbage"]
Responses ==
    {TimedOut} \cup
    [timeout : {FALSE}, status : Statuses, ctype : ContentTypes, body : Bodies]

\* the document a source serves: its own path, the path and the component
\* schema every source has
SpecOf(n) ==
    [BaseDoc(n) EXCEPT
        !.paths = Some(<<[k |-> "/users", v |-> <<PlainOperation>>],
                         [k |-> "/" \o Names[n], v |-> <<PlainOperation>>]>>),
        !.components = Some([schemas |-> Some(DefsOf(n, <<"Error">>)),
                             others |-> <<>>])]
\* {"detail": "Not Found"}: an object with none of the keys the merger reads
ErrorObject == EmptyDoc

\* response.json() and yaml.safe_load(response.text): whether they raise, and
\* the value otherwise (None for null)
JsonRaises(body) == body \in {"spec_yaml", "garbage"}
YamlRaises(body) == body = "garbage"
Parsed(n, body) ==
    CASE body \in {"spec_json", "spec_yaml"} -> Some(SpecOf(n))
      [] body = "error_json" -> Some(ErrorObject)
      [] OTHER -> None

Raised == [kind |-> "raised", value |-> None]
Returned(value) == [kind |-> "returned", value |-> value]

\* get_schema(url) of source n when the GET brings `response`: the status is
\* not looked at
get_schema(n, response) ==
    IF response.timeout THEN Raised
    ELSE IF response.ctype.openapi
    THEN IF ~JsonRaises(response.body) THEN Returned(Parsed(n, response.body))
         ELSE IF YamlRaises(response.body) THEN Raised
         ELSE Returned(Parsed(n, response.body))
    ELSE IF response.ctype.json
    THEN IF JsonRaises(response.body) THEN Raised
         ELSE Returned(Parsed(n, response.body))
    ELSE IF response.ctype.yaml
    THEN IF YamlRaises(response.body) THEN Raised
         ELSE Returned(Parsed(n, response.body))
    ELSE Returned(None)

---------------------------------------------------------------------------
(* Schema.get_schemas and the serving layer *)

IndexOf(name) == CHOOSE n \in DOMAIN Names : Names[n] = name

\* validate_sources_before_startup(sources): the sources kept when the
\* probes find exactly the sources named in `available` reachable.  A
\* disabled source is not probed and stays in the list.
validate_sources_before_startup(sources, available) ==
    SelectSeq(sources, LAMBDA src : ~src.enabled \/ src.name \in available)

\* config["sources"] = valid_sources, with the assignment left out
ConfigAfterLifespanUnchanged(sources, valid) == sources

\* config["sources"] = valid_sources
ConfigAfterLifespan(sources, valid) == valid

\* the tasks list get_schemas builds: one coroutine per enabled source
CreateTasks(sources) ==
    LET on == SelectSeq(sources, LAMBDA src : src.enabled)
    IN  [t \in DOMAIN on |->
            [name |-> on[t].name, source |-> on[t], state |-> "pending",
             result |-> Returned(None), timeout |-> FALSE, status |-> 0,
             unparseable |-> FALSE]]

\* asyncio.gather(*coroutines) without return_exceptions: it is over as soon
\* as one coroutine raises
GatherOverAtFirstException(ts) ==
    \/ \A t \in DOMAIN ts : ts[t].state = "done"
    \/ \E t \in DOMAIN ts : ts[t].state = "done" /\ ts[t].result.kind = "raised"

\* await asyncio.gather(*coroutines, return_exceptions=True) is over when
\* every coroutine has returned or raised
GatherOver(ts) == \A t \in DOMAIN ts : ts[t].state = "done"

\* the loop after the gather: exceptions and None are logged and left out
CollectSchemas(ts) ==
    LET good == SelectSeq(ts, LAMBDA task :
                    task.result.kind = "returned" /\ IsSome(task.result.value))
    IN  [t \in DOMAIN good |->
            [name |-> good[t].name, source |-> good[t].source,
             schema |-> Val(good[t].result.value)]]

Init ==
    /\ registry \in {[n \in 1..MaxSources |-> [Source(n) EXCEPT !.enabled = e[n]]]
                     : e \in [1..MaxSources -> BOOLEAN]}
    /\ config_sources = registry
    /\ startup_valid = <<>>
    /\ run_sources = <<>> /\ valid_sources = <<>> /\ was_unavailable = {}
    /\ pc = "boot"
    /\ tasks = <<>> /\ schemas = <<>> /\ given = <<>>
    /\ grouping = TRUE /\ settings = NoSettings /\ merged = NoResult
    /\ stamp_url = "" /\ stamp_doc = EmptyDoc /\ stamp_orig = EmptyDoc
    /\ stamp_once = EmptyDoc /\ stamp_count = 0

\* lifespan(): the sources are validated and the configuration is replaced
\* by the valid ones before any request is served
Lifespan ==
    /\ pc = "boot"
    /\ \E available \in SUBSET Range(Names) :
          LET valid == validate_sources_before_startup(config_sources, available)
          IN  /\ config_sources' = ConfigAfterLifespan(config_sources, valid)
              /\ startup_valid' = valid
    /\ pc' = "idle"
    /\ UNCHANGED <<registry, run_sources, valid_sources, was_unavailable, tasks,
                   schemas, given, grouping, settings, merged, stamp_url,
                   stamp_doc, stamp_orig, stamp_once, stamp_count>>

\* GET /openapi.json, up to its first await: sources = config.get("sources")
\* and the probes are sent
HandlerStart ==
    /\ pc \in {"idle", "ready", "failed"}
    /\ run_sources' = config_sources
    /\ valid_sources' = <<>>
    /\ tasks' = <<>> /\ schemas' = <<>> /\ given' = <<>> /\ merged' = NoResult
    /\ pc' = "probing"
    /\ UNCHANGED <<config_sources, registry, startup_valid, was_unavailable,
                   grouping, settings, stamp_url, stamp_doc, stamp_orig,
                   stamp_once, stamp_count>>

\* the validation returns; get_schemas creates its coroutines and awaits
\* the gather
ProbesReturn ==
    /\ pc = "probing"
    /\ \E available \in SUBSET Range(Names) :
          /\ valid_sources' =
                validate_sources_before_startup(run_sources, available)
          /\ was_unavailable' = was_unavailable \cup
                {run_sources[n].name : n \in
                    {m \in DOMAIN run_sources :
                        /\ run_sources[m].enabled
                        /\ run_sources[m].name \notin available}}
    /\ tasks' = CreateTasks(valid_sources')
    /\ pc' = "fetching"
    /\ UNCHANGED <<config_sources, registry, startup_valid, run_sources,
                   schemas, given, grouping, settings, merged, stamp_url,
                   stamp_doc, stamp_orig, stamp_once, stamp_count>>

\* a coroutine's entry once its GET has brought `response`: what
\* get_schema returned or raised, and what the response was like
Ended(task, response) ==
    [task EXCEPT !.state = "done",
                 !.result = get_schema(IndexOf(task.name), response),
                 !.timeout = response.timeout,
                 !.status = response.status,
                 !.unparseable = ~response.timeout /\ response.body = "garbage"]

\* one coroutine get_schema(url) ends, in any order among those running
FetchEnds ==
    /\ pc = "fetching"
    /\ \E t \in DOMAIN tasks :
          /\ tasks[t].state = "pending"
          /\ \E ended \in {Ended(tasks[t], response) : response \in Responses} :
                tasks' = [tasks EXCEPT ![t] = ended]
    /\ UNCHANGED <<config_sources, registry, startup_valid, run_sources,
                   valid_sources, was_unavailable, pc, schemas, given,
                   grouping, settings, merged, stamp_url, stamp_doc,
                   stamp_orig, stamp_once, stamp_count>>

\* the gather is over: get_schemas returns its list and the handler merges
\* it (SchemasMerger(schemas).merge()), or answers with the error merge raised
HandlerReturns ==
    /\ pc = "fetching"
    /\ GatherOver(tasks)
    /\ given' = CollectSchemas(tasks)
    /\ merged' = merge(given', TRUE, settings)
    /\ schemas' = PreparedBefore(given', TRUE, FirstUnprepared(given'))
    /\ pc' = IF merged'.raised = "" THEN "ready" ELSE "failed"
    /\ UNCHANGED <<config_sources, registry, startup_valid, run_sources,
                   valid_sources, was_unavailable, tasks, grouping, settings,
                   stamp_url, stamp_doc, stamp_orig, stamp_once, stamp_count>>

Next == Lifespan \/ HandlerStart \/ ProbesReturn \/ FetchEnds \/ HandlerReturns

Spec == Init /\ [][Next]_vars

---------------------------------------------------------------------------
(* Properties of the fetch batch and of the runs, stated on Spec *)

HandlerDone == pc \in {"ready", "failed"}
InRun == pc \in {"probing", "fetching", "ready", "failed"}
TaskOf(name) == tasks[CHOOSE t \in DOMAIN tasks : tasks[t].name = name]
\* the fetch of the source produced a document
Produced(src) ==
    /\ \E t \in DOMAIN tasks : tasks[t].name = src.name
    /\ TaskOf(src.name).state = "done"
    /\ TaskOf(src.name).result.kind = "returned"
    /\ IsSome(TaskOf(src.name).result.value)
NamesIn(entries) == {entries[n].name : n \in DOMAIN entries}
\* something of source src is in the merged document: an operation stamped
\* with its url, or a component schema of its document
ContributesTo(src, doc) ==
    \/ \E p \in DOMAIN Val(doc.paths) : \E o \in DOMAIN Val(doc.paths)[p].v :
          Some(src.url) \in Range(ServersOf(Val(doc.paths)[p].v[o]))
    \/ \E c \in DOMAIN Val(Val(doc.components).schemas) :
          Val(Val(doc.components).schemas)[c].v
              \in {src.name \o ":" \o "Error"}

\* C2: get_schemas returns only when every fetch has ended, and returns
\* exactly the enabled sources whose fetch produced a document, with that
\* document, in the order of the list it was given; a source whose fetch
\* failed has nothing in the merged document.
C2_FetchBatchIsolatedAndOrdered ==
    HandlerDone =>
        /\ \A t \in DOMAIN tasks : tasks[t].state = "done"
        /\ LET expected == SelectSeq(valid_sources,
                              LAMBDA src : src.enabled /\ Produced(src))
           IN  /\ Len(given) = Len(expected)
               /\ \A n \in DOMAIN given :
                     /\ given[n].source = expected[n]
                     /\ given[n].name = expected[n].name
                     /\ given[n].schema =
                           Val(TaskOf(expected[n].name).result.value)
        /\ pc = "ready" /\ given # <<>> =>
              \A n \in DOMAIN valid_sources :
                  ~Produced(valid_sources[n]) =>
                      ~ContributesTo(valid_sources[n], merged.doc)

\* three fetches ended, one by an exception, one with no document, one with
\* a document, and the merged document was built from the one document
C2_Witness ==
    /\ pc = "ready"
    /\ Len(tasks) >= 3
    /\ \E t \in DOMAIN tasks : tasks[t].result.kind = "raised"
    /\ \E t \in DOMAIN tasks :
          tasks[t].result.kind = "returned" /\ ~IsSome(tasks[t].result.value)
    /\ \E n \in DOMAIN given : ContributesTo(given[n].source, merged.doc)
    /\ Len(given) < Len(tasks)

\* C3: a fetch that times out, that is answered with a status that is not
\* 2xx, or whose body cannot be parsed yields no document: its source is not
\* in the list get_schemas returns.
C3_EveryFailureModeYieldsNoDocument ==
    \A t \in DOMAIN tasks :
        /\ tasks[t].state = "done"
        /\ tasks[t].timeout \/ tasks[t].status # 200 \/ tasks[t].unparseable
        => /\ ~Produced(tasks[t].source)
           /\ HandlerDone => tasks[t].name \notin NamesIn(given)

====
